---- MODULE Spec2Model ----
(***************************************************************************)
(* Model of pelican_semantic.py: the SemanticHTMLTranslator visit/depart   *)
(* hooks, the keyboard_role and the reader's default settings.             *)
(*                                                                         *)
(* The document tree is revealed node by node while the host's depth-first *)
(* walker (Node.walkabout) descends into it: the first walk records every  *)
(* event it performs in `script` and every node in `doc`; a second walk,   *)
(* with a fresh translator, replays the script over the very same nodes.   *)
(* Nodes whose hooks are inherited from the host translator are walked     *)
(* without output (their markup is not produced by this repository).       *)
(***************************************************************************)
EXTENDS Naturals, Sequences, FiniteSets, TLC

VARIABLES
    doc,                  \* the nodes of the tree, by node id (creation order)
    path,                 \* ids of the nodes entered and not yet left
    script,               \* events of the first walk, in order
    pc,                   \* next event of the script to replay (second walk)
    phase,                \* "walk1", "walk2", "done" or "aborted"
    body,                 \* self.body: the output buffer
    context,              \* self.context: the pending-close stack
    section_level,        \* self.section_level
    compact_field_list,   \* self.compact_field_list
    compact_p,            \* self.compact_p ("True", "False" or "None")
    in_document_title,    \* self.in_document_title
    initial_header_level, \* self.initial_header_level
    compact_field_lists,  \* self.settings.compact_field_lists
    body1,                \* output of the first walk, kept for comparison
    keep,                 \* whether the host keeps the tree for a second walk
    hook,                 \* the last hook that ran, with the state it found
    obs                   \* per node: what its entry hook opened and pushed

tr == <<body, context, section_level, compact_field_list, compact_p,
        in_document_title>>
settings == <<initial_header_level, compact_field_lists>>
walker == <<path, script, pc, phase, body1, keep>>
vars == <<doc, tr, settings, walker, hook, obs>>

----------------------------------------------------------------------------
(* Bounds *)

MaxNodes == 3      \* nodes of a document tree (the root not counted)

----------------------------------------------------------------------------
(* Helpers *)

Range(s) == {s[i] : i \in DOMAIN s}

Last(s) == s[Len(s)]

Front(s) == SubSeq(s, 1, Len(s) - 1)

SeqsUpTo(S, n) == UNION {[1..k -> S] : k \in 0..n}

\* [cls for cls in classes if cls != marker]
RECURSIVE strip_class(_, _)
strip_class_keep(classes, marker) == classes
strip_class(classes, marker) ==
    IF classes = <<>> THEN <<>>
    ELSE IF Head(classes) = marker
         THEN strip_class(Tail(classes), marker)
         ELSE <<Head(classes)>> \o strip_class(Tail(classes), marker)

----------------------------------------------------------------------------
(* Nodes and fragments *)

Node(kind, classes, refid, subtitle, text, fields) ==
    [kind |-> kind, parent |-> 0, classes |-> classes, ids |-> <<>>,
     refid |-> refid, subtitle |-> subtitle, text |-> text, fields |-> fields]

\* the {} passed to starttag for the back-reference anchor
EmptyNode == Node("", <<>>, "", FALSE, "", <<>>)

\* '<tagname class="..." id="..." href="...">' + suffix: the class attribute
\* is the node's class list followed by the CLASS argument
starttag(node, tagname, CLASS, href) ==
    [kind |-> "start", tags |-> <<tagname>>, classes |-> node.classes \o CLASS,
     ids |-> node.ids, href |-> href, text |-> ""]

\* '</t1></t2>\n'
endtag(tagnames) ==
    [kind |-> "end", tags |-> tagnames, classes |-> <<>>, ids |-> <<>>,
     href |-> "", text |-> ""]

\* the encoded text of a Text node
textfrag(text) ==
    [kind |-> "text", tags |-> <<>>, classes |-> <<>>, ids |-> <<>>,
     href |-> "", text |-> text]

\* keyboard_role: nodes.literal(rawtext, text) with set_class('kbd')
keyboard_role(text) == Node("literal", <<"kbd">>, "", FALSE, text, <<>>)

Texts == {"Ctrl+C"}

\* the marker classes visit_literal looks for
LiteralClasses == {"code", "kbd"}

\* the class lists of a literal: the marker classes in any combination
LiteralClassLists == SeqsUpTo(LiteralClasses, Cardinality(LiteralClasses))

LiteralNodes ==
    {keyboard_role(t) : t \in Texts}
    \cup {Node("literal", cls, "", FALSE, "x=1", <<>>) :
              cls \in LiteralClassLists}

SectionNodes ==
    {[Node("section", <<>>, "", sub, "", <<>>) EXCEPT !.ids = <<"s1">>] :
         sub \in BOOLEAN}

TitleNodes == {Node("title", <<>>, r, FALSE, "", <<>>) : r \in {"", "r1"}}

\* the fields of a field list, each given by the kinds of the children of
\* its field body: one list whose bodies all pass the compactness test, one
\* with a body that fails it
FieldLists == {<< <<"comment", "paragraph">> >>,
               << <<"comment">>, <<"bullet_list">> >>}

FieldListClasses == {<<>>, <<"compact">>, <<"open">>, <<"compact", "open">>}

FieldListNodes ==
    {Node("field_list", cls, "", FALSE, "", fs) :
         cls \in FieldListClasses, fs \in FieldLists}

\* parents whose own hooks are inherited; block_quote stands for any parent
\* a title must not have
OtherKinds == {"topic", "sidebar", "admonition", "block_quote"}

NewNodes(kind) ==
    CASE kind = "literal" -> LiteralNodes
      [] kind = "section" -> SectionNodes
      [] kind = "title" -> TitleNodes
      [] kind = "field_list" -> FieldListNodes
      [] OTHER -> {Node(kind, <<>>, "", FALSE, "", <<>>)}

----------------------------------------------------------------------------
(* The walker *)

Top == IF path = <<>> THEN 0 ELSE Last(path)

KindOf(d, id) == IF id = 0 THEN "document" ELSE d[id].kind

ParentKind(d, id) == KindOf(d, d[id].parent)

\* which kinds of node the tree may hold under a parent of a given kind
CanContain(pk, kind) ==
    CASE kind = "section" -> pk \in {"document", "section"}
      [] kind = "title" -> pk \in {"document", "section", "table"} \cup OtherKinds
      [] kind = "literal" -> pk \in {"document", "section", "title", "field_list"}
      [] kind = "field_list" ->
             pk \in {"document", "section", "field_list", "admonition"}
      [] kind = "table" -> pk \in {"document", "section", "field_list"}
      [] OTHER -> pk \in {"document", "section"}

\* the number of sections entered and not yet left
SectionDepth(p) == Cardinality({i \in DOMAIN p : doc[p[i]].kind = "section"})

\* the (id, tree) pairs the walker may enter next with a node of this kind
Entering(kind) ==
    IF phase = "walk1"
    THEN IF Len(doc) < MaxNodes /\ CanContain(KindOf(doc, Top), kind)
         THEN {[id |-> Len(doc) + 1,
                d |-> Append(doc, [n EXCEPT !.parent = Top])] :
                   n \in NewNodes(kind)}
         ELSE {}
    ELSE IF phase = "walk2" /\ pc <= Len(script) /\ script[pc].ev = "visit"
            /\ doc[script[pc].id].kind = kind
         THEN {[id |-> script[pc].id, d |-> doc]}
         ELSE {}

\* the node the walker may leave next, if it is of this kind
Leaving(kind) ==
    IF phase = "walk1"
    THEN IF path # <<>> /\ doc[Top].kind = kind
            /\ (kind = "literal" => hook.name = "visit_Text")
         THEN {Top} ELSE {}
    ELSE IF phase = "walk2" /\ pc <= Len(script) /\ script[pc].ev = "depart"
            /\ doc[script[pc].id].kind = kind
         THEN {Top} ELSE {}

NoObs == [classes |-> <<>>, opened |-> "", pushed |-> <<>>, cfl |-> FALSE,
          cp |-> ""]

Event(ev, id) == [ev |-> ev, id |-> id]

Record(ev, id) ==
    /\ script' = IF phase = "walk1" /\ keep THEN Append(script, Event(ev, id))
                 ELSE script
    /\ pc' = IF phase = "walk2" THEN pc + 1 ELSE pc
    /\ UNCHANGED <<body1, keep>>

Enter(id) == path' = Append(path, id) /\ Record("visit", id)

\* a node the walker has left for good, when no second walk will come
Gone == Node("gone", <<>>, "", FALSE, "", <<>>)

Leave(id) ==
    /\ path' = Front(path)
    /\ doc' = IF keep THEN doc ELSE [doc EXCEPT ![id] = Gone]
    /\ obs' = IF keep THEN obs ELSE [obs EXCEPT ![id] = NoObs]
    /\ Record("depart", id)

\* what a hook found when it was called: the translator's fields, the node's
\* classes and what the node's entry hook had opened and pushed
Snapshot(name, id, d) ==
    [name |-> name, id |-> id, body0 |-> body, context0 |-> context,
     cfl0 |-> compact_field_list, cp0 |-> compact_p, level0 |-> section_level,
     classes0 |-> IF id = 0 THEN <<>> ELSE d[id].classes,
     text0 |-> IF id = 0 THEN "" ELSE d[id].text,
     entry |-> IF id \in DOMAIN obs THEN obs[id] ELSE NoObs]

\* what the entry hook of node id found, opened and pushed
Observe(id, d, opened, pushed) ==
    obs' = [i \in 1..Len(doc') |->
              IF i = id THEN [classes |-> d[id].classes, opened |-> opened,
                              pushed |-> pushed, cfl |-> compact_field_list,
                              cp |-> compact_p]
              ELSE IF i \in DOMAIN obs THEN obs[i] ELSE NoObs]

KeepObs ==
    obs' = [i \in 1..Len(doc') |-> IF i \in DOMAIN obs THEN obs[i] ELSE NoObs]

----------------------------------------------------------------------------
(* SemanticHTMLTranslator hooks *)

literal_tag(classes) ==
    IF "code" \in Range(classes) THEN "code"
    ELSE IF "kbd" \in Range(classes) THEN "kbd"
    ELSE "code"

visit_literal(d, id) ==
    LET classes == d[id].classes
        stripped == IF "code" \in Range(classes) THEN strip_class(classes, "code")
                    ELSE IF "kbd" \in Range(classes) THEN strip_class(classes, "kbd")
                    ELSE classes
        node == [d[id] EXCEPT !.classes = stripped]
    IN  /\ doc' = [d EXCEPT ![id] = node]
        /\ body' = Append(body, starttag(node, literal_tag(classes), <<>>, ""))
        /\ UNCHANGED <<context, section_level, compact_field_list, compact_p,
                       in_document_title>>

depart_literal(id) ==
    /\ body' = Append(body, endtag(<<literal_tag(doc[id].classes)>>))
    /\ UNCHANGED <<context, section_level, compact_field_list, compact_p,
                   in_document_title>>

visit_section(d, id) ==
    /\ section_level' = section_level + 1
    /\ doc' = d
    /\ UNCHANGED <<body, context, compact_field_list, compact_p,
                   in_document_title>>

depart_section_keep(id) ==
    UNCHANGED tr
depart_section(id) ==
    /\ section_level' = section_level - 1
    /\ UNCHANGED <<body, context, compact_field_list, compact_p,
                   in_document_title>>

\* assert isinstance(node.parent, nodes.section)
assert_section_off(pk) == TRUE
assert_section(pk) == pk = "section"

\* the first five branches of visit_title, by the parent's kind
TitleParents == {"topic", "sidebar", "admonition", "table", "document"}

\* visit_title raises AssertionError for this parent
TitleAsserts(d, id) ==
    /\ ParentKind(d, id) \notin TitleParents
    /\ ~assert_section(ParentKind(d, id))

\* the element close_tag closes in the first five branches: '</p>\n' unless
\* the table or the document branch replaces it
title_close_default(pk) == "p"
title_close(pk) ==
    IF pk = "table" THEN "caption"
    ELSE IF pk = "document" THEN "h1"
    ELSE "p"

\* h_level = self.section_level + self.initial_header_level - 1
h_level_plain == section_level + initial_header_level
h_level == section_level + initial_header_level - 1

\* 'h%s' % h_level
h_tag == "h" \o ToString(h_level)

\* the title node after "node['ids'] = node.parent['ids']"
\* (every element of the host's document model carries an ids list, so the
\* test "'ids' in node.parent" holds)
title_with_ids(d, id) == [d[id] EXCEPT !.ids = d[d[id].parent].ids]

\* the fragments the section branch appends to the body
section_title_open(d, id) ==
    LET node == title_with_ids(d, id)
        CLASS == IF d[node.parent].subtitle THEN <<"with-subtitle">> ELSE <<>>
        h == starttag(node, h_tag, CLASS, "")
    IN  IF node.refid # ""
        THEN <<h, starttag(EmptyNode, "a", <<"toc-backref">>, "#" \o node.refid)>>
        ELSE <<h>>

\* the close_tag the section branch chooses
section_title_close(d, id) ==
    IF d[id].refid # "" THEN endtag(<<"a", h_tag>>) ELSE endtag(<<h_tag>>)

visit_title(d, id) ==
    LET node == d[id]
        pk == ParentKind(d, id)
        emit(frags, close_tag, nd) ==
            /\ body' = body \o frags
            /\ context' = Append(context, close_tag)
            /\ doc' = [d EXCEPT ![id] = nd]
    IN  IF pk = "topic"
        THEN /\ emit(<<starttag(node, "p", <<"topic-title first">>, "")>>,
                     endtag(<<title_close(pk)>>), node)
             /\ UNCHANGED in_document_title
        ELSE IF pk = "sidebar"
        THEN /\ emit(<<starttag(node, "p", <<"sidebar-title">>, "")>>,
                     endtag(<<title_close(pk)>>), node)
             /\ UNCHANGED in_document_title
        ELSE IF pk = "admonition"
        THEN /\ emit(<<starttag(node, "p", <<"admonition-title">>, "")>>,
                     endtag(<<title_close(pk)>>), node)
             /\ UNCHANGED in_document_title
        ELSE IF pk = "table"
        THEN /\ emit(<<starttag(node, "caption", <<>>, "")>>,
                     endtag(<<title_close(pk)>>), node)
             /\ UNCHANGED in_document_title
        ELSE IF pk = "document"
        THEN /\ emit(<<starttag(node, "h1", <<"title">>, "")>>,
                     endtag(<<title_close(pk)>>), node)
             /\ in_document_title' = Len(body) + 1
        ELSE IF ~assert_section(pk)
        THEN \* AssertionError: nothing was appended, nothing was pushed
             /\ doc' = d
             /\ UNCHANGED <<body, context, in_document_title>>
        ELSE /\ emit(section_title_open(d, id), section_title_close(d, id),
                     title_with_ids(d, id))
             /\ UNCHANGED in_document_title

\* inherited: self.body.append(self.context.pop())
depart_title(id) ==
    /\ body' = Append(body, Last(context))
    /\ context' = Front(context)
    /\ UNCHANGED <<section_level, compact_field_list, compact_p,
                   in_document_title>>

\* the comma-separated table_style setting, split and stripped
table_style == <<"docutils", "mytable">>

RECURSIVE join(_)
join(words) ==
    IF words = <<>> THEN ""
    ELSE IF Len(words) = 1 THEN words[1]
    ELSE words[1] \o " " \o join(Tail(words))

visit_table(d, id) ==
    /\ body' = Append(body, starttag(d[id], "table", <<join(table_style)>>, ""))
    /\ doc' = d
    /\ UNCHANGED <<context, section_level, compact_field_list, compact_p,
                   in_document_title>>

depart_table(id) ==
    /\ body' = Append(body, endtag(<<"table">>))
    /\ UNCHANGED <<context, section_level, compact_field_list, compact_p,
                   in_document_title>>

\* nodes.Invisible: comments and the like
Invisible == {"comment"}

\* [n for n in field_body if not isinstance(n, nodes.Invisible)]
RECURSIVE visible(_)
visible(field_body) ==
    IF field_body = <<>> THEN <<>>
    ELSE IF Head(field_body) \in Invisible THEN visible(Tail(field_body))
    ELSE <<Head(field_body)>> \o visible(Tail(field_body))

\* the test a field body must pass for the list to stay compact
simple_body(field_body) ==
    LET children == visible(field_body)
    IN  \/ Len(children) = 0
        \/ Len(children) = 1 /\ children[1] \in {"paragraph", "line_block"}

\* the two branches that set compact_field_list to True
force_compact_ignoring_open(classes) ==
    \/ "compact" \in Range(classes)
    \/ compact_field_lists
force_compact(classes) ==
    \/ "compact" \in Range(classes)
    \/ compact_field_lists /\ "open" \notin Range(classes)

\* the entry visit_field_list pushes on the context
saved_after_reset == <<compact_field_list, "None">>
saved_compact_state == <<compact_field_list, compact_p>>

visit_field_list(d, id) ==
    LET node == d[id]
        forced == IF force_compact(node.classes) THEN TRUE ELSE compact_field_list
        compact == IF forced
                   THEN \A i \in DOMAIN node.fields : simple_body(node.fields[i])
                   ELSE forced
    IN  /\ context' = Append(context, saved_compact_state)
        /\ compact_p' = "None"
        /\ compact_field_list' = compact
        /\ body' = body \o <<starttag(node, "table", <<"docutils field-list">>, ""),
                             starttag(EmptyNode, "tbody", <<>>, "")>>
        /\ doc' = d
        /\ UNCHANGED <<section_level, in_document_title>>

\* inherited: self.compact_field_list, self.compact_p = self.context.pop()
\* and the closing '</tbody>\n</table>\n'
depart_field_list(id) ==
    /\ compact_field_list' = Last(context)[1]
    /\ compact_p' = Last(context)[2]
    /\ context' = Front(context)
    /\ body' = Append(body, endtag(<<"tbody", "table">>))
    /\ UNCHANGED <<section_level, in_document_title>>

----------------------------------------------------------------------------
(* Actions *)

VisitLiteral ==
    \E e \in Entering("literal") :
        /\ visit_literal(e.d, e.id)
        /\ Enter(e.id)
        /\ hook' = Snapshot("visit_literal", e.id, e.d)
        /\ Observe(e.id, e.d, Last(body').tags[1], <<>>)
        /\ UNCHANGED <<phase, settings>>

\* the inherited visit_Text of the literal's one Text child
VisitText ==
    /\ path # <<>> /\ doc[Top].kind = "literal"
    /\ \/ phase = "walk1" /\ hook.name = "visit_literal"
       \/ phase = "walk2" /\ pc <= Len(script) /\ script[pc].ev = "text"
    /\ body' = Append(body, textfrag(doc[Top].text))
    /\ Record("text", Top)
    /\ hook' = Snapshot("visit_Text", Top, doc)
    /\ UNCHANGED <<doc, path, phase, settings, context, section_level,
                   compact_field_list, compact_p, in_document_title, obs>>

DepartLiteral ==
    \E id \in Leaving("literal") :
        /\ depart_literal(id)
        /\ Leave(id)
        /\ hook' = Snapshot("depart_literal", id, doc)
        /\ UNCHANGED <<phase, settings>>

VisitSection ==
    \E e \in Entering("section") :
        /\ visit_section(e.d, e.id)
        /\ Enter(e.id)
        /\ hook' = Snapshot("visit_section", e.id, e.d)
        /\ KeepObs
        /\ UNCHANGED <<phase, settings>>

DepartSection ==
    \E id \in Leaving("section") :
        /\ depart_section(id)
        /\ Leave(id)
        /\ hook' = Snapshot("depart_section", id, doc)
        /\ UNCHANGED <<phase, settings>>

VisitTitle ==
    \E e \in Entering("title") :
        /\ visit_title(e.d, e.id)
        /\ hook' = Snapshot("visit_title", e.id, e.d)
        /\ UNCHANGED <<section_level, compact_field_list, compact_p, settings>>
        /\ IF TitleAsserts(e.d, e.id)
           THEN /\ phase' = "aborted"
                /\ path' = Append(path, e.id)
                /\ KeepObs
                /\ UNCHANGED <<script, pc, body1, keep>>
           ELSE /\ Enter(e.id)
                /\ Observe(e.id, e.d, body'[Len(body) + 1].tags[1], Last(context'))
                /\ UNCHANGED phase

DepartTitle ==
    \E id \in Leaving("title") :
        /\ depart_title(id)
        /\ Leave(id)
        /\ hook' = Snapshot("depart_title", id, doc)
        /\ UNCHANGED <<phase, settings>>

VisitFieldList ==
    \E e \in Entering("field_list") :
        /\ visit_field_list(e.d, e.id)
        /\ Enter(e.id)
        /\ hook' = Snapshot("visit_field_list", e.id, e.d)
        /\ Observe(e.id, e.d, "table", Last(context'))
        /\ UNCHANGED <<phase, settings>>

DepartFieldList ==
    \E id \in Leaving("field_list") :
        /\ depart_field_list(id)
        /\ Leave(id)
        /\ hook' = Snapshot("depart_field_list", id, doc)
        /\ UNCHANGED <<phase, settings>>

VisitTable ==
    \E e \in Entering("table") :
        /\ visit_table(e.d, e.id)
        /\ Enter(e.id)
        /\ hook' = Snapshot("visit_table", e.id, e.d)
        /\ KeepObs
        /\ UNCHANGED <<phase, settings>>

DepartTable ==
    \E id \in Leaving("table") :
        /\ depart_table(id)
        /\ Leave(id)
        /\ hook' = Snapshot("depart_table", id, doc)
        /\ UNCHANGED <<phase, settings>>

\* a topic, sidebar, admonition or block quote: its hooks are inherited
VisitOther ==
    \E kind \in OtherKinds : \E e \in Entering(kind) :
        /\ doc' = e.d
        /\ Enter(e.id)
        /\ hook' = Snapshot("visit_other", e.id, e.d)
        /\ KeepObs
        /\ UNCHANGED <<tr, phase, settings>>

DepartOther ==
    \E kind \in OtherKinds : \E id \in Leaving(kind) :
        /\ Leave(id)
        /\ hook' = Snapshot("depart_other", id, doc)
        /\ UNCHANGED <<tr, phase, settings>>

\* the first walk is over: a fresh translator walks the same tree again
Rewalk ==
    /\ keep /\ phase = "walk1" /\ path = <<>> /\ doc # <<>>
    /\ phase' = "walk2"
    /\ body1' = body
    /\ pc' = 1
    /\ body' = <<>> /\ context' = <<>> /\ section_level' = 0
    /\ compact_field_list' = FALSE /\ compact_p' = "True"
    /\ in_document_title' = 0
    /\ hook' = Snapshot("init", 0, doc)
    /\ obs' = [i \in DOMAIN doc |-> NoObs]
    /\ UNCHANGED <<doc, path, script, settings, keep>>

Finish ==
    /\ phase = "walk2" /\ pc > Len(script)
    /\ phase' = "done"
    /\ hook' = Snapshot("done", 0, doc)
    /\ UNCHANGED <<doc, tr, settings, path, script, pc, body1, keep, obs>>

\* the state after the translator's construction, before the walk
Fresh ==
    /\ doc = <<>> /\ path = <<>> /\ script = <<>> /\ pc = 0
    /\ phase = "walk1"
    /\ body = <<>> /\ context = <<>> /\ section_level = 0
    /\ compact_field_list = FALSE /\ compact_p = "True"
    /\ in_document_title = 0
    \* '2' unless DOCUTILS_SETTINGS overrides it; 6 is the largest level the
    \* host's writer offers
    /\ initial_header_level \in {2, 6}
    /\ compact_field_lists \in BOOLEAN
    /\ body1 = <<>>
    /\ obs = <<>>
    /\ hook = Snapshot("init", 0, <<>>)

Init == Fresh /\ keep = FALSE

InitRewalk == Fresh /\ keep = TRUE

Walk ==
    \/ VisitLiteral \/ VisitText \/ DepartLiteral
    \/ VisitSection \/ DepartSection
    \/ VisitTitle \/ DepartTitle
    \/ VisitFieldList \/ DepartFieldList
    \/ VisitTable \/ DepartTable
    \/ VisitOther \/ DepartOther

Next == Walk

NextRewalk == Walk \/ Rewalk \/ Finish

\* one walk of one document
Spec == Init /\ [][Next]_vars

\* the same tree walked twice, each time by a fresh translator
SpecRewalk == InitRewalk /\ [][NextRewalk]_vars

----------------------------------------------------------------------------
(* Properties *)

\* the fragments the last hook appended to the body
Appended == SubSeq(body, Len(hook.body0) + 1, Len(body))

\* the last hook ran to its end (no assertion failed in it)
Ran(name) == hook.name = name /\ phase # "aborted"

\* C1: for every literal node, the element depart_literal closes is the
\* element visit_literal opened, which is kbd when the node's classes hold
\* kbd and not code, and code otherwise; the node keyboard_role makes for
\* Ctrl+C is rendered as <kbd>, the text, </kbd>.
C1_LiteralClosesWhatItOpened ==
    Ran("depart_literal") =>
        LET classes == Range(hook.entry.classes)
            element == IF "kbd" \in classes /\ "code" \notin classes
                       THEN "kbd" ELSE "code"
            n == Len(body)
        IN  /\ hook.entry.opened = element
            /\ body[n].kind = "end" /\ body[n].tags = <<hook.entry.opened>>
            /\ body[n - 1] = textfrag(hook.text0)
            /\ body[n - 2].kind = "start" /\ body[n - 2].tags = <<element>>

\* C2 as stated: whichever marker classes the literal carries, code and kbd
\* alike, none of them appears in the class attribute visit_literal emits.
C2_NoMarkerInClassAttribute ==
    Ran("visit_literal") =>
        \A marker \in LiteralClasses :
            marker \in Range(hook.classes0) =>
                marker \notin Range(Last(body).classes)

\* C2 amended: the marker class the chosen branch consumes (code when the
\* node has it, kbd when the node has kbd and not code) does not appear in
\* the class attribute visit_literal emits, and the attribute is computed
\* from the node's classes as they are after the removal.
C2_ConsumedMarkerStripped ==
    Ran("visit_literal") =>
        LET before == Range(hook.classes0)
            emitted == Last(body).classes
        IN  /\ "code" \in before => "code" \notin Range(emitted)
            /\ "kbd" \in before /\ "code" \notin before
                   => "kbd" \notin Range(emitted)
            /\ emitted = doc[hook.id].classes
            /\ Len(body) = Len(hook.body0) + 1

C2_Witness ==
    /\ Ran("visit_literal")
    /\ hook.classes0 = <<"kbd", "kbd">>
    /\ Last(body).tags = <<"kbd">>
    /\ Last(body).classes = <<>>

\* C3: during the walk section_level is its pre-walk value (0) plus the
\* number of sections entered and not yet left; it is the pre-walk value
\* again whenever the walker is back at the root.
C3_SectionLevelIsDepth ==
    /\ section_level = SectionDepth(path)
    /\ path = <<>> => section_level = 0

C3_Witness ==
    /\ hook.name = "depart_section"
    /\ hook.level0 = 2
    /\ section_level = 1

\* C4: a title under a section at nesting depth d opens h{d + L - 1}, L the
\* initial header level, and the closing fragment it pushes closes that same
\* heading, preceded by </a> exactly when the title has a refid, in which
\* case <a class="toc-backref" href="#refid"> follows the heading tag.
C4_SectionTitleHeading ==
    Ran("visit_title") /\ ParentKind(doc, hook.id) = "section" =>
        LET d == SectionDepth(path)
            h == "h" \o ToString(d + initial_header_level - 1)
            refid == doc[hook.id].refid
        IN  /\ Appended[1].kind = "start" /\ Appended[1].tags = <<h>>
            /\ context = Append(hook.context0,
                                endtag(IF refid # "" THEN <<"a", h>> ELSE <<h>>))
            /\ IF refid # ""
               THEN /\ Len(Appended) = 2
                    /\ Appended[2] = [kind |-> "start", tags |-> <<"a">>,
                                      classes |-> <<"toc-backref">>,
                                      ids |-> <<>>, href |-> "#" \o refid,
                                      text |-> ""]
               ELSE Len(Appended) = 1

C4_Witness ==
    /\ Ran("visit_title")
    /\ ParentKind(doc, hook.id) = "section"
    /\ SectionDepth(path) = 2
    /\ doc[hook.id].refid = "r1"
    /\ Last(context).tags = <<"a", "h3">>

\* the heading elements of HTML
HeadingTags == {"h" \o ToString(n) : n \in 1..6}

\* C5: every heading element emitted for a title, under the document or under
\* a section at any depth, is one of h1 to h6.
C5_HeadingsAreH1ToH6 ==
    Ran("visit_title") /\ ParentKind(doc, hook.id) \in {"document", "section"}
        => Appended[1].tags[1] \in HeadingTags

\* the elements the fragments open, in order
RECURSIVE OpenedBy(_)
OpenedBy(frags) ==
    IF frags = <<>> THEN <<>> ELSE Head(frags).tags \o OpenedBy(Tail(frags))

RECURSIVE Reverse(_)
Reverse(seq) ==
    IF seq = <<>> THEN <<>> ELSE Append(Reverse(Tail(seq)), Head(seq))

\* the opening tag and the class the interface gives for a title, by the kind
\* of the title's parent
TitleElement(pk) ==
    CASE pk = "topic" -> <<"p", <<"topic-title first">> >>
      [] pk = "sidebar" -> <<"p", <<"sidebar-title">> >>
      [] pk = "admonition" -> <<"p", <<"admonition-title">> >>
      [] pk = "table" -> <<"caption", <<>> >>
      [] pk = "document" -> <<"h1", <<"title">> >>

\* visit_title opened the element the interface gives for this parent
TitleByParent ==
    LET pk == ParentKind(doc, hook.id)
    IN  pk \in TitleParents =>
            /\ Appended = <<[kind |-> "start", tags |-> <<TitleElement(pk)[1]>>,
                             classes |-> TitleElement(pk)[2], ids |-> <<>>,
                             href |-> "", text |-> ""]>>
            /\ Last(context) = endtag(<<TitleElement(pk)[1]>>)

\* C6 as stated: visit_title picks the tag pair by the parent's kind, and for
\* every parent kind it appends exactly one opening tag and pushes exactly
\* one closing fragment, which closes the element opened.
C6_OneOpeningTagPerTitle ==
    Ran("visit_title") =>
        /\ TitleByParent
        /\ Len(Appended) = 1
        /\ Len(context) = Len(hook.context0) + 1
        /\ Last(context).tags = Appended[1].tags

\* C6 amended: visit_title picks the tag pair by the parent's kind; it
\* appends exactly one opening tag, or two (the heading, then the anchor)
\* under the section rule when the title has a refid, and pushes exactly one
\* closing fragment, which closes every element opened, innermost first.
C6_TitleTagByParent ==
    Ran("visit_title") =>
        /\ TitleByParent
        /\ Len(Appended) = IF /\ ParentKind(doc, hook.id) = "section"
                              /\ doc[hook.id].refid # ""
                           THEN 2 ELSE 1
        /\ \A i \in DOMAIN Appended : Appended[i].kind = "start"
        /\ Len(context) = Len(hook.context0) + 1
        /\ Last(context).kind = "end"
        /\ Last(context).tags = Reverse(OpenedBy(Appended))

C6_Witness ==
    /\ Ran("visit_title")
    /\ ParentKind(doc, hook.id) = "table"
    /\ Last(body).tags = <<"caption">>
    /\ Last(context).tags = <<"caption">>

\* C7: walking the same tree a second time with a fresh translator gives the
\* output of the first walk.
C7_RewalkSameOutput ==
    phase = "done" => body = body1

\* C8: visit_title on a title whose parent is none of topic, sidebar,
\* admonition, table, document, section fails its assertion: the walk is
\* aborted, nothing was appended to the body and nothing pushed.
C8_UnexpectedParentAborts ==
    hook.name = "visit_title"
    /\ ParentKind(doc, hook.id) \notin TitleParents \cup {"section"}
        => /\ phase = "aborted"
           /\ body = hook.body0
           /\ context = hook.context0

C8_Witness ==
    /\ hook.name = "visit_title"
    /\ ParentKind(doc, hook.id) = "block_quote"
    /\ phase = "aborted"
    /\ section_level = 1

\* C9: with titles and field lists nested in any order, the entry a title's
\* exit pops is the closing fragment its entry pushed, the entry a field
\* list's exit pops is the pair its entry saved, so compact_field_list and
\* compact_p are again what they were before the list, and the stack is as
\* deep after the walk as before it.
C9_ContextPairing ==
    /\ Ran("depart_title") =>
           /\ Last(hook.context0) = hook.entry.pushed
           /\ Last(body) = hook.entry.pushed
           /\ context = Front(hook.context0)
    /\ Ran("depart_field_list") =>
           /\ Last(hook.context0) = hook.entry.pushed
           /\ compact_field_list = hook.entry.cfl
           /\ compact_p = hook.entry.cp
           /\ context = Front(hook.context0)
    /\ path = <<>> => context = <<>>

C9_Witness ==
    /\ Ran("depart_field_list")
    /\ hook.context0 # <<>> /\ Last(hook.context0) = <<FALSE, "True">>
    /\ hook.cfl0 = TRUE /\ compact_field_list = FALSE
    /\ hook.cp0 = "None" /\ compact_p = "True"
    /\ \E i, j \in DOMAIN body :
           /\ i < j
           /\ "docutils field-list" \in Range(body[i].classes)
           /\ body[j].tags = <<"caption">>
           /\ body[j + 1] = endtag(<<"caption">>)

\* one of the two rules forces compact rendering of this class list
Forced(classes) ==
    \/ "compact" \in Range(classes)
    \/ compact_field_lists /\ "open" \notin Range(classes)

\* a field body is empty or holds one paragraph or line block, comments aside
PassesBodyTest(field_body) ==
    LET shown == SelectSeq(field_body, LAMBDA k : k # "comment")
    IN  shown \in {<<>>, <<"paragraph">>, <<"line_block">>}

FieldListMarkup ==
    Appended = <<[kind |-> "start", tags |-> <<"table">>,
                  classes |-> hook.classes0 \o <<"docutils field-list">>,
                  ids |-> <<>>, href |-> "", text |-> ""],
                 [kind |-> "start", tags |-> <<"tbody">>, classes |-> <<>>,
                  ids |-> <<>>, href |-> "", text |-> ""]>>

\* C10 as stated: when visit_field_list returns, compact_field_list is true
\* for every list either rule forced, whatever its field bodies; the hook
\* appends the table and tbody tags in every case.
C10_ForcedListsAreCompact ==
    Ran("visit_field_list") =>
        /\ Forced(hook.classes0) => compact_field_list = TRUE
        /\ FieldListMarkup

\* C10 amended: when visit_field_list returns, compact_field_list is true
\* exactly when a rule forced the list (or the flag was already set) and
\* every field body passes the body test; a body failing the test clears the
\* flag of a forced list too. The hook appends the table and tbody tags in
\* every case.
C10_CompactOnlyIfBodiesPass ==
    Ran("visit_field_list") =>
        /\ compact_field_list =
               (/\ Forced(hook.classes0) \/ hook.cfl0
                /\ \A i \in DOMAIN doc[hook.id].fields :
                       PassesBodyTest(doc[hook.id].fields[i]))
        /\ FieldListMarkup

C10_Witness ==
    /\ Ran("visit_field_list")
    /\ "compact" \in Range(hook.classes0)
    /\ compact_field_list = FALSE
    /\ Len(Appended) = 2

====
